---- MODULE Spec2Model ----
(***************************************************************************)
(* A model of lyngspice (src/lyngspice/lyngspice.py): the NgSpice handle,  *)
(* the process-global ngspice shared library it drives, the callbacks the  *)
(* library invokes, and the result decoder get_data.                       *)
(*                                                                         *)
(* Spec           two NgSpice objects in one process: construction,        *)
(*                reset, destruction, commands, runs and external-source   *)
(*                requests.                                                *)
(* SpecSources    the same with the runs reduced to their simulation.      *)
(* SpecConstruct  construction on every platform and disk content.         *)
(* SpecDecode     one pass of get_data over the plots and vectors the      *)
(*                engine enumerates.                                       *)
(* SpecOutput     the lines the engine hands to _SendChar and _SendStat.   *)
(* SpecDataset    a Dataset under construction and item assignment.        *)
(* SpecViews      a get_data pass followed by runs, resets, destruction    *)
(*                and the engine's writes to its vector buffers.           *)
(* SpecVersion    version() step by step, with a background simulation     *)
(*                printing lines from the engine's thread.                 *)
(***************************************************************************)
EXTENDS Integers, Sequences, FiniteSets, TLC

VARIABLES
    running_os,        \* platform.system() of the process
    life,              \* per object: "unborn", "live", "failed" (__init__ raised), "dead"
    shared,            \* per object: the _shared attribute: "unset", "open", "closed"
    external_sources,  \* per object: the _external_sources dict, name -> function
    ng_out,            \* per object: the _ng_out sink
    eng,               \* the shared library: dlopen count, userData of ngSpice_Init, sync link
    sim,               \* the simulation the engine is running, if any
    crashed,           \* the process died in a call through a released library or object
    lastReg,           \* history: per object and name, the function add_external_source gave last
    diag,              \* history: per object and name, undefined-source warnings written
    ev,                \* history: the last operation or callback and what it returned
    dec,               \* the state of a get_data pass
    lib_path,          \* per object: the lib_path attribute
    msg_queue,         \* per object: the _msg_queue of decoded output lines
    written,           \* per object: the strings _ng_out.write accepted
    emitted,           \* history: the lines the engine handed to _SendChar and _SendStat
    cb,                \* the _GetSRCData call the engine thread is inside, if any
    ds,                \* a Dataset object
    mem,               \* the engine's vector buffers get_data was pointed at, by address
    ver                \* the version() call the caller's thread is inside, if any

vars == <<running_os, life, shared, external_sources, ng_out, eng, sim, crashed,
          lastReg, diag, ev, dec, lib_path, msg_queue, written, emitted, cb, ds,
          mem, ver>>

(***************************************************************************)
(* Bounds of the model                                                     *)
(***************************************************************************)
\* warnings counted per name (the code writes one; two shows a repeat)
MaxDiag == 2
\* simulated times of a data request are 0..MaxTime
MaxTime == 1

Handles == {"h1", "h2"}
NoHandle == "nohandle"
Names == {"va0", "va1"}
Times == 0..MaxTime

\* user functions of time; ZeroFn is the lambda t: 0.0 of line 407
UserFns == {"f", "g"}
ZeroFn == "zero"
NoFn == "absent"

Apply(fn, t) ==
    CASE fn = "f" -> t + 1
      [] fn = "g" -> 2 * t + 3
      [] OTHER -> 0

\* Python values a call can return
PyNone == "None"
PyInt(i) == IF i = 0 THEN "0" ELSE "1"
Truthy(v) == v \notin {PyNone, "0", "{}"}

EmptySources == [n \in Names |-> NoFn]
DevNull == "devnull"

NoSim == [h |-> NoHandle, bg |-> FALSE, load_rejected |-> FALSE]

NoEv ==
    [op |-> "none", h |-> NoHandle, name |-> "-", t |-> 0, value |-> 0,
     regd |-> NoFn, miss |-> FALSE, status |-> 0, ret |-> "-",
     decoded |-> FALSE, load_rejected |-> FALSE, netlist |-> "-",
     exc |-> "-", detach_on |-> "-", quit_sent |-> FALSE,
     files |-> {}, init_status |-> 0, stderr |-> "-"]

Ev(op, h) == [NoEv EXCEPT !.op = op, !.h = h]

\* a dict with no key
EmptyMap == [k \in {} |-> 0]
Put(m, k, v) == (k :> v) @@ m

IndexError == "IndexError"

\* Python's list[i]: a negative i counts from the end of the list
PyInRange(list, i) == -Len(list) <= i /\ i < Len(list)
PyIndex(list, i) ==
    IF ~PyInRange(list, i) THEN IndexError
    ELSE IF i >= 0 THEN list[i + 1] ELSE list[Len(list) + i + 1]

\* _msg_queue_flush: get() until qsize() is 0
msg_queue_flush(q) == <<>>

\* no _GetSRCData call is in progress
NoCb == [self |-> NoHandle, name |-> "-", regd |-> NoFn]

\* the address of no buffer
NoAddr == <<>>

\* "unbound": a local variable of get_data not assigned yet
Unbound == "unbound"
UnboundZ == [dtype |-> Unbound, re |-> <<>>, im |-> <<>>, base |-> NoAddr]

NoDec ==
    [pc |-> "idle", plots |-> <<>>, seen |-> <<>>, data |-> EmptyMap,
     units |-> EmptyMap, z |-> UnboundZ, vec_name |-> Unbound, ret |-> <<>>]

\* no version() call is in progress; got: the lines the last one took
NoVer == [pc |-> "idle", h |-> NoHandle, got |-> <<>>]

\* a Dataset not constructed yet
NoDataset == [made |-> FALSE, items |-> EmptyMap, dict |-> EmptyMap]

(***************************************************************************)
(* The platform tables                                                     *)
(***************************************************************************)
LibLoaderOS == {"Linux", "Windows", "FreeBSD"}
Platforms == {"Linux", "Plan9"}
\* what platform.system() may give: the three of the tables and one outside
Systems == LibLoaderOS \cup {"Darwin"}

LIB_PATHS ==
    [os \in LibLoaderOS |->
       CASE os = "Linux" -> <<"libngspice.so", "/usr/local/lib/libngspice.so">>
         [] os = "Windows" -> <<"C:\\Program Files\\Spice\\bin_dll\\ngspice.dll",
                                "C:\\Program Files\\Spice64\\bin_dll\\ngspice.dll",
                                "ngspice.dll">>
         [] OTHER -> <<"/usr/local/lib/libngspice.so">>]

NoPath == "unset"

\* what is on the disk: the listed paths that are files
AllPaths == UNION {{LIB_PATHS[os][i] : i \in 1..Len(LIB_PATHS[os])} : os \in LibLoaderOS}
Disks == SUBSET AllPaths

\* list(filter(os.path.isfile, paths))
isfile_filter(paths, files) == SelectSeq(paths, LAMBDA p : p \in files)

\* a search that takes the last listed file
last_lib_path(paths, files) == PyIndex(isfile_filter(paths, files), -1)

\* list(filter(os.path.isfile, paths))[0]
first_lib_path(paths, files) == PyIndex(isfile_filter(paths, files), 0)

(***************************************************************************)
(* __attach and __detach                                                   *)
(***************************************************************************)
\* an __attach that leaves out the ngSpice_Init_Sync call
attach_without_sync(e, h) ==
    [refs |-> e.refs + 1, user |-> h, sync |-> e.sync /\ e.refs > 0]

\* __attach: LoadLibrary, ngSpice_Init with py_object(self) as user data,
\* ngSpice_Init_Sync with _GetSRCData
attach(e, h) ==
    [refs |-> e.refs + 1, user |-> h, sync |-> TRUE]

\* the quit command and dlclose: the engine's plots and vectors are freed
release(m) == [a \in DOMAIN m |-> [m[a] EXCEPT !.live = FALSE]]

\* dlclose: one reference less
dlclose(e) ==
    [e EXCEPT !.refs = IF e.refs > 0 THEN e.refs - 1 ELSE 0]

Attached(h) == life[h] = "live" /\ shared[h] = "open"

\* the caller's thread is free: no foreground run is blocking it
CallerFree == ~crashed /\ (sim = NoSim \/ sim.bg)

\* _shared names a library this object can call into
Callable(h) == shared[h] \in {"open", "closed"}

\* __detach: command('quit') through _shared, then dlclose of its handle.
\* The set of outcomes, by the state of _shared:
\*   unset   self._shared does not exist: AttributeError, nothing is sent;
\*   open    quit is delivered and the library loses one reference;
\*   closed  the call goes through a handle dlclose already released: the
\*           process dies, or the library is still mapped and serves it,
\*           and dlclose takes one more reference.
detach(h) ==
    CASE shared[h] = "unset" ->
           {[exc |-> "AttributeError", crash |-> FALSE, eng |-> eng,
             shared |-> "unset", quit_sent |-> FALSE, sim |-> sim]}
      [] shared[h] = "open" ->
           {[exc |-> "-", crash |-> FALSE, eng |-> dlclose(eng),
             shared |-> "closed", quit_sent |-> TRUE, sim |-> NoSim]}
      [] OTHER ->
           {[exc |-> "-", crash |-> c, eng |-> IF c THEN eng ELSE dlclose(eng),
             shared |-> "closed", quit_sent |-> TRUE,
             sim |-> IF c THEN sim ELSE NoSim] : c \in BOOLEAN}

(***************************************************************************)
(* Initial state: no NgSpice object exists, the library is not loaded      *)
(***************************************************************************)
Init ==
    /\ running_os \in Platforms
    /\ life = [h \in Handles |-> "unborn"]
    /\ shared = [h \in Handles |-> "unset"]
    /\ external_sources = [h \in Handles |-> EmptySources]
    /\ ng_out = [h \in Handles |-> DevNull]
    /\ eng = [refs |-> 0, user |-> NoHandle, sync |-> FALSE]
    /\ sim = NoSim
    /\ crashed = FALSE
    /\ lastReg = [h \in Handles |-> EmptySources]
    /\ diag = [h \in Handles |-> [n \in Names |-> 0]]
    /\ ev = NoEv
    /\ dec = NoDec
    /\ lib_path = [h \in Handles |-> NoPath]
    /\ msg_queue = [h \in Handles |-> <<>>]
    /\ written = [h \in Handles |-> <<>>]
    /\ emitted = <<>>
    /\ cb = NoCb
    /\ ds = NoDataset
    /\ mem = EmptyMap
    /\ ver = NoVer

(***************************************************************************)
(* NgSpice.__init__(output)                                                *)
(***************************************************************************)
\* files: the paths that are files on the disk; loads: whether LoadLibrary
\* of the chosen path succeeds; init_status: what ngSpice_Init returns
Construct(h, output, files, loads, init_status) ==
    /\ CallerFree
    /\ life[h] = "unborn"
    /\ ~loads => init_status = 0
    /\ external_sources' = [external_sources EXCEPT ![h] = EmptySources]
    /\ ng_out' = [ng_out EXCEPT ![h] = IF output # PyNone THEN output ELSE DevNull]
    /\ msg_queue' = [msg_queue EXCEPT ![h] = <<>>]
    /\ LET known == running_os \in LibLoaderOS
           path == IF known THEN first_lib_path(LIB_PATHS[running_os], files)
                   ELSE IndexError
           exc == CASE ~known -> "OSError"
                    [] path = IndexError -> "FileNotFoundError"
                    [] ~loads -> "OSError"
                    [] OTHER -> "-"
       IN /\ life' = [life EXCEPT ![h] = IF exc = "-" THEN "live" ELSE "failed"]
          /\ shared' = [shared EXCEPT ![h] = IF exc = "-" THEN "open" ELSE "unset"]
          /\ lib_path' = [lib_path EXCEPT ![h] = IF path = IndexError THEN NoPath ELSE path]
          /\ eng' = IF exc = "-" THEN attach(eng, h) ELSE eng
          /\ ev' = [Ev("init", h) EXCEPT
                      !.exc = exc, !.files = files,
                      !.init_status = IF exc = "-" THEN init_status ELSE 0,
                      !.stderr = CASE ~known -> "Unknown operating system"
                                   [] path = IndexError -> "No ngspice shared library found"
                                   [] OTHER -> "-"]
    /\ UNCHANGED <<running_os, sim, crashed, lastReg, diag, dec,
                   written, emitted, cb, ds, mem, ver>>

(***************************************************************************)
(* NgSpice.add_external_source(name, fun)                                  *)
(***************************************************************************)
add_external_source(es, name, fun) == [es EXCEPT ![name] = fun]

AddExternalSource(h, name, fun) ==
    /\ CallerFree
    /\ life[h] = "live"
    /\ external_sources' =
         [external_sources EXCEPT ![h] = add_external_source(@, name, fun)]
    /\ lastReg' = [lastReg EXCEPT ![h][name] = fun]
    /\ ev' = [Ev("add_external_source", h) EXCEPT !.name = name]
    /\ UNCHANGED <<running_os, life, shared, ng_out, eng, sim, crashed, diag, dec,
                   lib_path, msg_queue, written, emitted, cb, ds, mem, ver>>

(***************************************************************************)
(* NgSpice.reset(): __detach then __attach                                 *)
(***************************************************************************)
\* load_ok: whether LoadLibrary succeeds in the re-attach; init_status:
\* what its ngSpice_Init returns
Reset(h, load_ok, init_status) ==
    /\ CallerFree
    /\ life[h] = "live"
    /\ ~load_ok => init_status = 0
    /\ msg_queue' = [msg_queue EXCEPT ![h] = msg_queue_flush(@)]
    /\ \E d \in detach(h) :
         /\ crashed' = d.crash
         /\ mem' = IF d.quit_sent /\ ~d.crash THEN release(mem) ELSE mem
         /\ sim' = d.sim
         /\ IF d.crash \/ ~load_ok
               THEN /\ eng' = d.eng
                    /\ shared' = [shared EXCEPT ![h] = d.shared]
               ELSE /\ eng' = attach(d.eng, h)
                    /\ shared' = [shared EXCEPT ![h] = "open"]
         /\ ev' = [Ev("reset", h) EXCEPT
                     !.detach_on = shared[h], !.quit_sent = d.quit_sent,
                     !.exc = IF d.crash THEN "-"
                             ELSE IF load_ok THEN "-" ELSE "OSError",
                     !.init_status = IF d.crash \/ ~load_ok THEN 0 ELSE init_status]
    /\ UNCHANGED <<running_os, life, external_sources, ng_out, lastReg, diag, dec,
                   lib_path, written, emitted, cb, ds, ver>>

(***************************************************************************)
(* NgSpice.__del__(): __detach, whatever __init__ reached                  *)
(***************************************************************************)
\* An object a callback in progress holds as self is not collected.
Del(h) ==
    /\ CallerFree
    /\ life[h] \in {"live", "failed"}
    /\ cb.self # h
    /\ msg_queue' = [msg_queue EXCEPT ![h] = msg_queue_flush(@)]
    /\ life' = [life EXCEPT ![h] = "dead"]
    /\ \E d \in detach(h) :
         /\ crashed' = d.crash
         /\ mem' = IF d.quit_sent /\ ~d.crash THEN release(mem) ELSE mem
         /\ sim' = d.sim
         /\ eng' = d.eng
         /\ shared' = [shared EXCEPT ![h] = d.shared]
         /\ ev' = [Ev("del", h) EXCEPT
                     !.detach_on = shared[h], !.quit_sent = d.quit_sent,
                     !.exc = d.exc]
    /\ UNCHANGED <<running_os, external_sources, ng_out, lastReg, diag, dec,
                   lib_path, written, emitted, cb, ds, ver>>

(***************************************************************************)
(* NgSpice.command(command)                                                *)
(***************************************************************************)
\* what command() gives back when ngSpice_Command reported `status`
command(status) == PyNone

\* any call through a _shared whose library this object already released
CallReleased(h) ==
    /\ CallerFree
    /\ life[h] = "live"
    /\ shared[h] = "closed"
    /\ crashed' = TRUE
    /\ ev' = Ev("call_released", h)
    /\ UNCHANGED <<running_os, life, shared, external_sources, ng_out, eng, sim,
                   lastReg, diag, dec,
                   lib_path, msg_queue, written, emitted, cb, ds, mem, ver>>

Command(h, status) ==
    /\ CallerFree
    /\ life[h] = "live"
    /\ Callable(h)
    /\ msg_queue' = [msg_queue EXCEPT ![h] = msg_queue_flush(@)]
    /\ ev' = [Ev("command", h) EXCEPT !.status = status, !.ret = command(status)]
    /\ UNCHANGED <<running_os, life, shared, external_sources, ng_out, eng, sim,
                   crashed, lastReg, diag, dec, lib_path, written, emitted, cb, ds, mem, ver>>

(***************************************************************************)
(* NgSpice.load_netlist, NgSpice.__run, NgSpice.run, NgSpice.bg_run        *)
(***************************************************************************)
NetlistKinds == {"none", "path", "lines"}

\* load_netlist: a path goes through command('source <path>'), a list of
\* lines through ngSpice_Circ, whose int result is returned
load_netlist(netlist, status) ==
    IF netlist = "path" THEN command(status) ELSE PyInt(status)

\* __run after the engine answered the run command with `status`:
\* 1 when command() is truthy, else the implicit None
run_result(status) == IF Truthy(command(status)) THEN "1" ELSE PyNone

\* __run's write to sys.stderr after the run command
run_stderr(status) ==
    IF Truthy(command(status)) THEN "Error simulating netlist" ELSE "-"

\* run(): {} when __run is truthy, else get_data()
run_return(r) == IF Truthy(r) THEN "{}" ELSE "data"

\* The first half of run/bg_run: the netlist load, and the run command sent.
\* A foreground run then blocks the caller until RunEnd; bg_run returns.
RunStart(h, netlist, load_status, bg, status) ==
    /\ CallerFree
    /\ sim = NoSim
    /\ life[h] = "live"
    /\ Callable(h)
    /\ netlist = "none" => load_status = 0
    /\ bg \/ status = 0
    /\ LET rejected == netlist # "none" /\ load_status # 0
           aborted == netlist # "none" /\ Truthy(load_netlist(netlist, load_status))
           base == [Ev(IF bg THEN "bg_run" ELSE "run", h) EXCEPT
                      !.netlist = netlist, !.load_rejected = rejected]
       IN /\ msg_queue' =
               [msg_queue EXCEPT ![h] = IF netlist = "path" \/ ~aborted
                                          THEN msg_queue_flush(@) ELSE @]
          /\ IF aborted
               THEN /\ ev' = [base EXCEPT !.ret = IF bg THEN "1" ELSE run_return("1"),
                                          !.stderr = "Error loading netlist"]
                    /\ sim' = sim
               ELSE IF bg
               THEN /\ ev' = [base EXCEPT !.status = status, !.ret = run_result(status),
                                          !.stderr = run_stderr(status)]
                    /\ sim' = IF status = 0
                                THEN [h |-> h, bg |-> TRUE, load_rejected |-> rejected]
                                ELSE sim
               ELSE /\ ev' = [base EXCEPT !.op = "run_begin"]
                    /\ sim' = [h |-> h, bg |-> FALSE, load_rejected |-> rejected]
    /\ UNCHANGED <<running_os, life, shared, external_sources, ng_out, eng, crashed,
                   lastReg, diag, dec, lib_path, written, emitted, cb, ds, mem, ver>>

\* The second half of a foreground run: ngSpice_Command('run') returns
\* `status`, __run returns, and run() decodes or gives {}
RunEnd(status) ==
    /\ ~crashed
    /\ sim # NoSim
    /\ ~sim.bg
    /\ cb = NoCb
    /\ LET r == run_return(run_result(status))
       IN ev' = [Ev("run", sim.h) EXCEPT
                   !.status = status, !.ret = r, !.decoded = (r = "data"),
                   !.stderr = run_stderr(status),
                   !.load_rejected = sim.load_rejected,
                   !.netlist = IF sim.load_rejected THEN "path" ELSE "-"]
    /\ sim' = NoSim
    /\ UNCHANGED <<running_os, life, shared, external_sources, ng_out, eng, crashed,
                   lastReg, diag, dec,
                   lib_path, msg_queue, written, emitted, cb, ds, mem, ver>>

(***************************************************************************)
(* Callbacks                                                               *)
(***************************************************************************)
\* _GetSRCData: the value written to return_value[0]
GetSRCData_value(es, node_name, actual_time) ==
    IF es[node_name] # NoFn THEN Apply(es[node_name], actual_time) ELSE 0

\* a miss that installs no fallback
GetSRCData_sources_no_fallback(es, node_name) == es

\* _GetSRCData, else branch: the registry it leaves
GetSRCData_sources(es, node_name) == [es EXCEPT ![node_name] = ZeroFn]

\* The engine evaluates external source node_name at actual_time. self is
\* the user data of the last ngSpice_Init (ngSpice_Init_Sync passes none).
\* The test of line 404: a registered name is answered at once; for any
\* other the call enters the else branch, where it writes to sys.stderr
\* before it assigns, and the caller's thread can run in between. The else
\* branch does not read actual_time.
GetSRCData(node_name, actual_time) ==
    /\ ~crashed
    /\ sim # NoSim
    /\ eng.sync
    /\ eng.user # NoHandle
    /\ cb = NoCb
    /\ LET self == eng.user
           es == external_sources[self]
           miss == es[node_name] = NoFn
       IN /\ miss => diag[self][node_name] < MaxDiag
          /\ cb' = IF miss
                     THEN [self |-> self, name |-> node_name,
                           regd |-> lastReg[self][node_name]]
                     ELSE cb
          /\ ev' = IF miss THEN ev
                   ELSE [Ev("GetSRCData", self) EXCEPT
                           !.name = node_name, !.t = actual_time,
                           !.value = GetSRCData_value(es, node_name, actual_time),
                           !.regd = lastReg[self][node_name], !.ret = "0"]
    /\ UNCHANGED <<running_os, life, shared, external_sources, ng_out, eng, sim,
                   crashed, lastReg, diag, dec, lib_path, msg_queue, written,
                   emitted, ds, mem, ver>>

\* The else branch of the call in progress: lines 406-409
GetSRCDataUndefined ==
    /\ ~crashed
    /\ cb # NoCb
    /\ external_sources' =
         [external_sources EXCEPT ![cb.self] = GetSRCData_sources(@, cb.name)]
    /\ diag' = [diag EXCEPT ![cb.self][cb.name] = @ + 1]
    /\ ev' = [Ev("GetSRCData", cb.self) EXCEPT
                !.name = cb.name, !.value = 0, !.regd = cb.regd,
                !.miss = TRUE, !.ret = "1",
                !.stderr = "Warning: Undefined external source"]
    /\ cb' = NoCb
    /\ UNCHANGED <<running_os, life, shared, ng_out, eng, sim, crashed, lastReg,
                   dec, lib_path, msg_queue, written, emitted, ds, mem, ver>>

\* A callback whose self is an object already destroyed: the process may die
CallbackDangling ==
    /\ ~crashed
    /\ sim # NoSim
    /\ cb = NoCb
    /\ eng.user # NoHandle
    /\ life[eng.user] = "dead"
    /\ crashed' = TRUE
    /\ ev' = Ev("callback_dangling", eng.user)
    /\ UNCHANGED <<running_os, life, shared, external_sources, ng_out, eng, sim,
                   lastReg, diag, dec,
                   lib_path, msg_queue, written, emitted, cb, ds, mem, ver>>

\* _BGThreadRunning: the background simulation ended
BGThreadRunning ==
    /\ ~crashed
    /\ sim # NoSim
    /\ sim.bg
    /\ cb = NoCb
    /\ sim' = NoSim
    /\ ev' = Ev("BGThreadRunning", sim.h)
    /\ UNCHANGED <<running_os, life, shared, external_sources, ng_out, eng, crashed,
                   lastReg, diag, dec,
                   lib_path, msg_queue, written, emitted, cb, ds, mem, ver>>

(***************************************************************************)
(* _SendChar and _SendStat                                                 *)
(***************************************************************************)
\* lines the engine hands over in one exploration
MaxLines == 3

\* bytes.decode('iso8859_15'): the code point of each byte
iso8859_15(b) ==
    CASE b = 164 -> 8364
      [] b = 166 -> 352
      [] b = 168 -> 353
      [] b = 180 -> 381
      [] b = 184 -> 382
      [] b = 188 -> 338
      [] b = 189 -> 339
      [] b = 190 -> 376
      [] OTHER -> b
decode(p) == [k \in 1..Len(p) |-> iso8859_15(p[k])]

\* the C strings the engine passes: "ng" and the single byte 0xA4
Lines == {<<110, 103>>, <<164>>}
NewLine == <<10>>

\* where _SendChar can raise: nowhere, in write(msg), in write('\n')
SendCharOutcomes == {"ok", "write_msg", "write_nl"}

\* what the sink accepted when the call ends
SendChar_written(w, msg, outcome) ==
    CASE outcome = "ok" -> w \o <<msg, NewLine>>
      [] outcome = "write_nl" -> w \o <<msg>>
      [] OTHER -> w

\* The int the engine receives. An exception leaving the Python function
\* is reported on sys.stderr by the ctypes thunk, which then returns
\* without writing the result: the engine reads whatever was there.
SendChar_returns(outcome) == IF outcome = "ok" THEN {"0"} ELSE {"0", "1"}

\* _SendChar(p_output, lib_id, self): decode, put, write, write. The
\* os.devnull file takes every write; a caller's sink may raise. thread:
\* "caller" when the engine prints inside an ngSpice_Command the caller is
\* in, "engine" when it prints from its own thread.
SendChar(p_output, outcome, thread) ==
    /\ ~crashed
    /\ eng.user # NoHandle
    /\ life[eng.user] = "live"
    /\ Len(emitted) < MaxLines
    /\ outcome # "ok" => ng_out[eng.user] # DevNull
    /\ thread = "caller" => ver.pc = "command"
    /\ LET self == eng.user
           msg == decode(p_output)
       IN /\ emitted' = Append(emitted, [self |-> self, via |-> "SendChar",
                                         line |-> p_output, thread |-> thread])
          /\ msg_queue' = [msg_queue EXCEPT ![self] = Append(@, msg)]
          /\ written' = [written EXCEPT ![self] = SendChar_written(@, msg, outcome)]
          /\ \E ret \in SendChar_returns(outcome) :
                ev' = [Ev("SendChar", self) EXCEPT
                         !.ret = ret,
                         !.exc = IF outcome = "ok" THEN "-" ELSE "ValueError",
                         !.stderr = IF outcome = "ok" THEN "-"
                                    ELSE "Exception ignored on calling ctypes callback function"]
    /\ UNCHANGED <<running_os, life, shared, external_sources, ng_out, eng, sim,
                   crashed, lastReg, diag, dec, lib_path, cb, ds, mem, ver>>

\* _SendStat(p_sim_stat, lib_id, self): return 0
SendStat(p_sim_stat) ==
    /\ ~crashed
    /\ eng.user # NoHandle
    /\ life[eng.user] = "live"
    /\ Len(emitted) < MaxLines
    /\ emitted' = Append(emitted, [self |-> eng.user, via |-> "SendStat",
                                   line |-> p_sim_stat, thread |-> "-"])
    /\ ev' = [Ev("SendStat", eng.user) EXCEPT !.ret = "0"]
    /\ UNCHANGED <<running_os, life, shared, external_sources, ng_out, eng, sim,
                   crashed, lastReg, diag, dec, lib_path, msg_queue, written, cb, ds, mem, ver>>

(***************************************************************************)
(* The process                                                             *)
(***************************************************************************)
\* The objects of the process: h1 is the caller's working object, which
\* registers sources and may be given a sink; h2 is a second object of the
\* same process, constructed with the defaults and registering nothing
Registrants == {"h1"}
Outputs(h) == IF h \in Registrants THEN {PyNone, "user_sink"} ELSE {PyNone}

\* Here the one external source is va0, and the disk holds the first
\* listed library or none.
Next ==
    \/ \E h \in Handles, files \in {{}, {LIB_PATHS["Linux"][1]}}, loads \in BOOLEAN :
          \E output \in Outputs(h) : Construct(h, output, files, loads, 0)
    \/ \E h \in Registrants, fun \in UserFns : AddExternalSource(h, "va0", fun)
    \/ \E h \in Handles, load_ok \in BOOLEAN : Reset(h, load_ok, 0)
    \/ \E h \in Handles : Del(h)
    \/ \E h \in Handles : CallReleased(h)
    \/ \E h \in Handles, status \in {0, 1} : Command(h, status)
    \/ \E h \in Handles, netlist \in NetlistKinds, load_status \in {0, 1},
          bg \in BOOLEAN, status \in {0, 1} : RunStart(h, netlist, load_status, bg, status)
    \/ \E status \in {0, 1} : RunEnd(status)
    \/ \E actual_time \in Times : GetSRCData("va0", actual_time)
    \/ GetSRCDataUndefined
    \/ CallbackDangling
    \/ BGThreadRunning

Spec == Init /\ [][Next]_vars

\* The same process with the runs reduced to their simulation: no netlist
\* is loaded and the engine reports success, and h2 is only constructed and
\* destroyed, so that the registry, the resets and the data requests of h1
\* are explored in full.
NextSources ==
    \/ \E h \in Handles, loads \in BOOLEAN :
          \E output \in Outputs(h) : Construct(h, output, {LIB_PATHS["Linux"][1]}, loads, 0)
    \/ \E h \in Registrants, name \in Names, fun \in UserFns :
          AddExternalSource(h, name, fun)
    \/ \E h \in Registrants, load_ok \in BOOLEAN : Reset(h, load_ok, 0)
    \/ \E h \in Handles : Del(h)
    \/ \E h \in Registrants : CallReleased(h)
    \/ \E h \in Registrants, bg \in BOOLEAN : RunStart(h, "none", 0, bg, 0)
    \/ RunEnd(0)
    \/ \E node_name \in Names, actual_time \in Times : GetSRCData(node_name, actual_time)
    \/ GetSRCDataUndefined
    \/ CallbackDangling
    \/ BGThreadRunning

SpecSources == Init /\ [][NextSources]_vars

\* Construction alone: every platform, every content of the disk, every
\* answer of LoadLibrary and ngSpice_Init.
InitConstruct ==
    /\ running_os \in Systems
    /\ life = [h \in Handles |-> "unborn"]
    /\ shared = [h \in Handles |-> "unset"]
    /\ external_sources = [h \in Handles |-> EmptySources]
    /\ ng_out = [h \in Handles |-> DevNull]
    /\ eng = [refs |-> 0, user |-> NoHandle, sync |-> FALSE]
    /\ sim = NoSim
    /\ crashed = FALSE
    /\ lastReg = [h \in Handles |-> EmptySources]
    /\ diag = [h \in Handles |-> [n \in Names |-> 0]]
    /\ ev = NoEv
    /\ dec = NoDec
    /\ lib_path = [h \in Handles |-> NoPath]
    /\ msg_queue = [h \in Handles |-> <<>>]
    /\ written = [h \in Handles |-> <<>>]
    /\ emitted = <<>>
    /\ cb = NoCb
    /\ ds = NoDataset
    /\ mem = EmptyMap
    /\ ver = NoVer

NextConstruct ==
    \/ \E h \in Handles, files \in Disks, loads \in BOOLEAN, init_status \in {0, 1} :
          \E output \in Outputs(h) : Construct(h, output, files, loads, init_status)
    \/ \E h \in Handles, load_ok \in BOOLEAN, init_status \in {0, 1} :
          Reset(h, load_ok, init_status)
    \/ \E h \in Handles : Del(h)
    \/ \E h \in Handles : CallReleased(h)
    \/ \E h \in Handles, status \in {0, 1} : Command(h, status)

SpecConstruct == InitConstruct /\ [][NextConstruct]_vars

\* The output of the engine to one object, constructed with the default
\* sink or with a caller's.
InitOutput ==
    /\ running_os = "Linux"
    /\ life = [h \in Handles |-> IF h = "h1" THEN "live" ELSE "unborn"]
    /\ shared = [h \in Handles |-> IF h = "h1" THEN "open" ELSE "unset"]
    /\ external_sources = [h \in Handles |-> EmptySources]
    /\ \E output \in Outputs("h1") :
          ng_out = [h \in Handles |-> IF h = "h1" /\ output # PyNone THEN output
                                      ELSE DevNull]
    /\ eng = attach([refs |-> 0, user |-> NoHandle, sync |-> FALSE], "h1")
    /\ sim = NoSim
    /\ crashed = FALSE
    /\ lastReg = [h \in Handles |-> EmptySources]
    /\ diag = [h \in Handles |-> [n \in Names |-> 0]]
    /\ ev = Ev("init", "h1")
    /\ dec = NoDec
    /\ lib_path = [h \in Handles |-> IF h = "h1" THEN LIB_PATHS["Linux"][1] ELSE NoPath]
    /\ msg_queue = [h \in Handles |-> <<>>]
    /\ written = [h \in Handles |-> <<>>]
    /\ emitted = <<>>
    /\ cb = NoCb
    /\ ds = NoDataset
    /\ mem = EmptyMap
    /\ ver = NoVer

NextOutput ==
    \/ \E p_output \in Lines, outcome \in SendCharOutcomes :
          SendChar(p_output, outcome, "engine")
    \/ \E p_sim_stat \in Lines : SendStat(p_sim_stat)
    \/ \E h \in Registrants, status \in {0, 1} : Command(h, status)

SpecOutput == InitOutput /\ [][NextOutput]_vars

(***************************************************************************)
(* NgSpice.version()                                                       *)
(***************************************************************************)
\* the lines _SendChar put on the queue of h, in order
SentChars(h) == SelectSeq(emitted, LAMBDA e : e.self = h /\ e.via = "SendChar")

\* the emission the head of the queue of h came from
HeadEmission(h) == SentChars(h)[Len(SentChars(h)) - Len(msg_queue[h]) + 1]

\* line 232: command('version -f') empties the queue and enters
\* ngSpice_Command, in which the engine prints its answer
VersionCommand(h) ==
    /\ CallerFree
    /\ ver.pc = "idle"
    /\ Attached(h)
    /\ msg_queue' = [msg_queue EXCEPT ![h] = msg_queue_flush(@)]
    /\ ver' = [pc |-> "command", h |-> h, got |-> <<>>]
    /\ ev' = Ev("version_command", h)
    /\ UNCHANGED <<running_os, life, shared, external_sources, ng_out, eng, sim,
                   crashed, lastReg, diag, dec, lib_path, written, emitted, cb,
                   ds, mem>>

\* ngSpice_Command returns, command() returns
VersionCommandReturn ==
    /\ ~crashed
    /\ ver.pc = "command"
    /\ ver' = [ver EXCEPT !.pc = "loop"]
    /\ ev' = [Ev("command", ver.h) EXCEPT !.ret = command(0)]
    /\ UNCHANGED <<running_os, life, shared, external_sources, ng_out, eng, sim,
                   crashed, lastReg, diag, dec, lib_path, msg_queue, written,
                   emitted, cb, ds, mem>>

\* lines 235-244, one pass: qsize() is not 0, get() and parse the line
VersionGet ==
    /\ ~crashed
    /\ ver.pc = "loop"
    /\ Len(msg_queue[ver.h]) > 0
    /\ msg_queue' = [msg_queue EXCEPT ![ver.h] = Tail(@)]
    /\ ver' = [ver EXCEPT !.got = Append(@, HeadEmission(ver.h))]
    /\ ev' = Ev("version_get", ver.h)
    /\ UNCHANGED <<running_os, life, shared, external_sources, ng_out, eng, sim,
                   crashed, lastReg, diag, dec, lib_path, written, emitted, cb,
                   ds, mem>>

\* line 235: qsize() is 0, the loop is left
VersionLoopExit ==
    /\ ~crashed
    /\ ver.pc = "loop"
    /\ Len(msg_queue[ver.h]) = 0
    /\ ver' = [ver EXCEPT !.pc = "return"]
    /\ ev' = Ev("version_loop_exit", ver.h)
    /\ UNCHANGED <<running_os, life, shared, external_sources, ng_out, eng, sim,
                   crashed, lastReg, diag, dec, lib_path, msg_queue, written,
                   emitted, cb, ds, mem>>

\* lines 246-251: the dict of what the lines taken gave
VersionReturn ==
    /\ ~crashed
    /\ ver.pc = "return"
    /\ ver' = [ver EXCEPT !.pc = "idle"]
    /\ ev' = [Ev("version", ver.h) EXCEPT !.ret = "dict"]
    /\ UNCHANGED <<running_os, life, shared, external_sources, ng_out, eng, sim,
                   crashed, lastReg, diag, dec, lib_path, msg_queue, written,
                   emitted, cb, ds, mem>>

\* version() called on an object, before and while a background
\* simulation runs on it
NextVersion ==
    \/ ver.pc = "idle" /\ RunStart("h1", "none", 0, TRUE, 0)
    \/ BGThreadRunning
    \/ \E h \in Registrants : VersionCommand(h)
    \/ \E p_output \in Lines : SendChar(p_output, "ok", "caller")
    \/ \E p_output \in Lines : sim.bg /\ SendChar(p_output, "ok", "engine")
    \/ VersionCommandReturn
    \/ VersionGet
    \/ VersionLoopExit
    \/ VersionReturn

SpecVersion == InitOutput /\ [][NextVersion]_vars

(***************************************************************************)
(* The unit and type catalog                                               *)
(***************************************************************************)
UNITS ==
    <<"", "s", "Hz", "V", "A", "V/Hz", "A/Hz", "sqrt(V)/Hz", "sqrt(I)/Hz",
      "sqrt(V)", "sqrt(I)", "Hz", "Hz", "", "C", "Ohm", "Ohm", "S", "W",
      "deg", "dB", "C", "Q">>

TYPE ==
    <<"no_type", "time", "frequency", "voltage", "current", "voltage_density",
      "current_density", "sqr_voltage_density", "sqr_current_density",
      "sqr_voltage", "sqr_current", "pole", "zero", "s_parameter",
      "temperature", "res", "impedance", "admittance", "power", "phase",
      "db", "capacitance", "charge">>

(***************************************************************************)
(* Numbers: the engine's doubles are modelled by integers, which a double  *)
(* holds exactly up to 2^53; numpy's complex64 holds two float32           *)
(***************************************************************************)
\* significand bits of a float32
Float32Bits == 24

RECURSIVE BitLen(_)
BitLen(a) == IF a = 0 THEN 0 ELSE 1 + BitLen(a \div 2)

Abs(x) == IF x < 0 THEN -x ELSE x

\* conversion of a double to float32: round to nearest, ties to even
Float32(x) ==
    LET a == Abs(x)
        n == BitLen(a)
    IN IF n <= Float32Bits THEN x
       ELSE LET q == 2 ^ (n - Float32Bits)
                lo == (a \div q) * q
                r == a - lo
                up == IF 2 * r < q THEN lo
                      ELSE IF 2 * r > q THEN lo + q
                      ELSE IF (a \div q) % 2 = 0 THEN lo ELSE lo + q
            IN IF x < 0 THEN -up ELSE up

(***************************************************************************)
(* get_data: the decoding of one vector                                    *)
(***************************************************************************)
is_real(v_flags) == v_flags % 2 = 1
is_complex(v_flags) == (v_flags \div 2) % 2 = 1

\* x_jy[0::2] and x_jy[1::2]
Evens(b) == [k \in 1..(Len(b) \div 2) |-> b[2 * k - 1]]
Odds(b) == [k \in 1..(Len(b) \div 2) |-> b[2 * k]]
Zeros(n) == [k \in 1..n |-> 0]
Float32Seq(q) == [k \in 1..Len(q) |-> Float32(q[k])]

\* np.array(x_jy[0::2], dtype=np.complex64) and the assignment to z.imag
complex64(re, im) ==
    [dtype |-> "complex64", re |-> Float32Seq(re), im |-> Float32Seq(im),
     base |-> NoAddr]

\* a real vector narrowed to float32
real_z_float32(vec) ==
    [dtype |-> "float32", re |-> Float32Seq(vec.buf), im |-> Zeros(Len(vec.buf)),
     base |-> vec.addr]

\* the z of a real-flagged vector: the v_length doubles at v_realdata.
\* np.ctypeslib.as_array makes an array over the memory the pointer names,
\* no copy: base is that address.
real_z(vec) ==
    [dtype |-> "float64", re |-> vec.buf, im |-> Zeros(Len(vec.buf)),
     base |-> vec.addr]

\* the z of a complex-flagged vector: the 2*v_length doubles at v_compdata
complex_z(vec) ==
    IF vec.v_name # "frequency"
      THEN complex64(Evens(vec.buf), Odds(vec.buf))
      ELSE [dtype |-> "float32", re |-> complex64(Evens(vec.buf), <<>>).re,
            im |-> Zeros(Len(vec.buf) \div 2), base |-> NoAddr]

\* z after the flag tests of one loop pass: a vector with neither flag
\* leaves z as the pass before left it
next_z(z, vec) ==
    IF is_real(vec.v_flags) THEN real_z(vec)
    ELSE IF is_complex(vec.v_flags) THEN complex_z(vec)
    ELSE z

\* (_UNITS[vec.v_type], _TYPE[vec.v_type])
unit_tag(v_type) == <<PyIndex(UNITS, v_type), PyIndex(TYPE, v_type)>>
unit_tag_raises(v_type) == ~PyInRange(UNITS, v_type) \/ ~PyInRange(TYPE, v_type)

(***************************************************************************)
(* What the engine may report for a vector                                 *)
(***************************************************************************)
\* vectors decoded in one pass
MaxVecs == 2
\* plots in one pass
MaxPlots == 2
\* v_length is 0..MaxLen
MaxLen == 2

PlotNames == <<"ac1", "const", "tran1", "op1">>
Sample == <<16777217, 3, 0, -16777219>>
Buffer(seed, len) == [k \in 1..len |-> Sample[((seed + k - 1) % Len(Sample)) + 1]]
Seeds == {0, 1}

TypeCodes == {-24, -23, -1, 0, 22, 23}
VoltageCode == 3
FrequencyCode == 2

Vec(name, code, flags, buf, n, fault) ==
    [v_name |-> name, v_type |-> code, v_flags |-> flags, buf |-> buf,
     v_length |-> n, fault |-> fault, addr |-> NoAddr]

\* buffers of every length and content, under each flag
DataVecs(name, code) ==
    {Vec(name, code, 1, Buffer(sd, n), n, FALSE) : sd \in Seeds, n \in 0..MaxLen}
      \cup {Vec(name, code, 2, Buffer(sd, 2 * n), n, FALSE) : sd \in Seeds, n \in 0..MaxLen}

VecInfos ==
    DataVecs("frequency", FrequencyCode)
      \cup DataVecs("out", VoltageCode)
      \cup {Vec("out", VoltageCode, 3, Buffer(0, 1), 1, FALSE)}
      \cup {Vec("out", VoltageCode, 0, <<>>, 1, FALSE)}
      \cup {Vec("out", c, 1, Buffer(0, 1), 1, FALSE) : c \in TypeCodes}
      \cup {Vec("out", c, 2, Buffer(0, 2), 1, FALSE) : c \in {-1, 23}}
      \cup {Vec(n, VoltageCode, 1, Buffer(0, 1), 1, TRUE) : n \in {"out", "frequency"}}

(***************************************************************************)
(* get_data, one loop pass at a time                                       *)
(***************************************************************************)
CurPlot == dec.plots[Len(dec.plots)]
SeenIn(p) == {i \in 1..Len(dec.seen) : dec.seen[i].plot = p}
NamesIn(p) == {dec.seen[i].vec.v_name : i \in SeenIn(p)}

\* get_data's return statement
get_data_return(data, units) == <<data, units>>

\* the outer loop: the next plot name, and its two empty dicts
EnterPlot ==
    /\ dec.pc = "plots"
    /\ Len(dec.plots) < MaxPlots
    /\ LET p == PlotNames[Len(dec.plots) + 1]
       IN dec' = [dec EXCEPT !.pc = "vecs", !.plots = Append(@, p),
                             !.data = Put(@, p, EmptyMap),
                             !.units = Put(@, p, EmptyMap)]
    /\ UNCHANGED <<running_os, life, shared, external_sources, ng_out, eng, sim,
                   crashed, lastReg, diag, ev,
                   lib_path, msg_queue, written, emitted, cb, ds, mem, ver>>

\* the inner loop's body for one vector; vec is what ngGet_Vec_Info gives
\* (fault: taking .contents or v_name raises). The names in one plot's list
\* are distinct. Whatever raises inside the try is dropped by the bare
\* except: an unbound z at line 345, a list index out of range at line 346,
\* the latter after data[...][vec_name] was assigned. The data pointer of
\* the vector of plot p named n is the address <<p, n>>; mem takes what the
\* engine holds there when the pointer is used.
DecodeVec(info) ==
    /\ dec.pc = "vecs"
    /\ Len(dec.seen) < MaxVecs
    /\ info.v_name \notin NamesIn(CurPlot)
    /\ LET p == CurPlot
           vec == [info EXCEPT !.addr = <<p, info.v_name>>]
           z == next_z(dec.z, vec)
           seen == Append(dec.seen, [plot |-> p, vec |-> vec])
       IN /\ mem' = IF ~vec.fault /\ (is_real(vec.v_flags) \/ is_complex(vec.v_flags))
                      THEN Put(mem, vec.addr, [live |-> TRUE, val |-> vec.buf])
                      ELSE mem
          /\ IF vec.fault
               THEN dec' = [dec EXCEPT !.seen = seen]
             ELSE IF z = UnboundZ
               THEN dec' = [dec EXCEPT !.seen = seen, !.vec_name = vec.v_name]
             ELSE IF unit_tag_raises(vec.v_type)
               THEN dec' = [dec EXCEPT !.seen = seen, !.vec_name = vec.v_name, !.z = z,
                                       !.data[p] = Put(@, vec.v_name, z)]
             ELSE dec' = [dec EXCEPT !.seen = seen, !.vec_name = vec.v_name, !.z = z,
                                     !.data[p] = Put(@, vec.v_name, z),
                                     !.units[p] = Put(@, vec.v_name, unit_tag(vec.v_type))]
    /\ UNCHANGED <<running_os, life, shared, external_sources, ng_out, eng, sim,
                   crashed, lastReg, diag, ev,
                   lib_path, msg_queue, written, emitted, cb, ds, ver>>

\* all_vectors[i] is None: the plot is done
LeavePlot ==
    /\ dec.pc = "vecs"
    /\ dec' = [dec EXCEPT !.pc = "plots"]
    /\ UNCHANGED <<running_os, life, shared, external_sources, ng_out, eng, sim,
                   crashed, lastReg, diag, ev,
                   lib_path, msg_queue, written, emitted, cb, ds, mem, ver>>

\* plots[i] is None: return data, units
Return ==
    /\ dec.pc = "plots"
    /\ dec' = [dec EXCEPT !.pc = "done", !.ret = get_data_return(dec.data, dec.units)]
    /\ UNCHANGED <<running_os, life, shared, external_sources, ng_out, eng, sim,
                   crashed, lastReg, diag, ev,
                   lib_path, msg_queue, written, emitted, cb, ds, mem, ver>>

\* get_data called on an object just constructed
InitDecode ==
    /\ running_os = "Linux"
    /\ life = [h \in Handles |-> IF h = "h1" THEN "live" ELSE "unborn"]
    /\ shared = [h \in Handles |-> IF h = "h1" THEN "open" ELSE "unset"]
    /\ external_sources = [h \in Handles |-> EmptySources]
    /\ ng_out = [h \in Handles |-> DevNull]
    /\ eng = attach([refs |-> 0, user |-> NoHandle, sync |-> FALSE], "h1")
    /\ sim = NoSim
    /\ crashed = FALSE
    /\ lastReg = [h \in Handles |-> EmptySources]
    /\ diag = [h \in Handles |-> [n \in Names |-> 0]]
    /\ ev = Ev("init", "h1")
    /\ dec = [NoDec EXCEPT !.pc = "plots"]
    /\ lib_path = [h \in Handles |-> IF h = "h1" THEN LIB_PATHS["Linux"][1] ELSE NoPath]
    /\ msg_queue = [h \in Handles |-> <<>>]
    /\ written = [h \in Handles |-> <<>>]
    /\ emitted = <<>>
    /\ cb = NoCb
    /\ ds = NoDataset
    /\ mem = EmptyMap
    /\ ver = NoVer

NextDecode ==
    \/ EnterPlot
    \/ \E vec \in VecInfos : DecodeVec(vec)
    \/ LeavePlot
    \/ Return

SpecDecode == InitDecode /\ [][NextDecode]_vars

(***************************************************************************)
(* The returned arrays and the engine's memory                             *)
(***************************************************************************)
\* The engine writes one of its own vectors while it simulates.
EngineWrite(addr, seed) ==
    /\ ~crashed
    /\ sim # NoSim
    /\ addr \in DOMAIN mem
    /\ mem[addr].live
    /\ mem' = [mem EXCEPT ![addr].val = Buffer(seed, Len(@))]
    /\ ev' = Ev("engine_write", sim.h)
    /\ UNCHANGED <<running_os, life, shared, external_sources, ng_out, eng, sim,
                   crashed, lastReg, diag, dec, lib_path, msg_queue, written,
                   emitted, cb, ds, ver>>

\* What the caller can read in a returned array z: its own values when numpy
\* owns them; the engine's memory when z is an array over it, and whatever
\* lies there once the engine freed it.
Reads(z) ==
    IF z.base = NoAddr THEN {z.re}
    ELSE IF mem[z.base].live THEN {mem[z.base].val}
    ELSE {Buffer(sd, Len(z.re)) : sd \in 0..(Len(Sample) - 1)}

\* vectors of one element, of each flag and content
ViewVecs == {v \in VecInfos : v.v_length = 1 /\ ~v.fault
                               /\ v.v_type \in {VoltageCode, FrequencyCode}}

\* One get_data pass on an object, and what the caller and the engine do
\* once it returned: further runs, a reset, the destruction.
NextViews ==
    \/ EnterPlot
    \/ \E vec \in ViewVecs : DecodeVec(vec)
    \/ LeavePlot
    \/ Return
    \/ dec.pc = "done" /\ \E bg \in BOOLEAN : RunStart("h1", "none", 0, bg, 0)
    \/ RunEnd(0)
    \/ BGThreadRunning
    \/ \E addr \in DOMAIN mem, seed \in Seeds : EngineWrite(addr, seed)
    \/ dec.pc = "done" /\ \E load_ok \in BOOLEAN : Reset("h1", load_ok, 0)
    \/ dec.pc = "done" /\ Del("h1")

SpecViews == InitDecode /\ [][NextViews]_vars

(***************************************************************************)
(* Dataset(dict)                                                           *)
(***************************************************************************)
\* keys: a plot name, two names class dict defines, and one key that is
\* not a str (the int 7)
StrKeys == {"tran1", "keys", "items"}
IntKey == "<int 7>"
DatasetKeys == StrKeys \cup {IntKey}
Items == {"x", "y"}

\* attributes every dict instance takes from its class
DictMethods == {"keys", "items", "values", "get"}
BuiltinMethod == "<built-in method>"
AttributeError == "AttributeError"
TypeError == "TypeError"

\* Dataset(initial): dict.__init__, then self.__dict__.update(self)
Dataset_init(initial) == [made |-> TRUE, items |-> initial, dict |-> initial]

\* d[key] = item: dict.__setitem__, then setattr(self, key, self[key]),
\* which raises TypeError for a key that is not a str
Dataset_setitem_raises(key) == key \notin StrKeys
Dataset_setitem(d, key, item) ==
    [d EXCEPT !.items = Put(@, key, item),
              !.dict = IF Dataset_setitem_raises(key) THEN @ ELSE Put(@, key, item)]

\* getattr(d, name): the instance __dict__ comes before the methods of the
\* class; a name that is not a str is a TypeError
getattr(d, name) ==
    IF name \notin StrKeys \cup DictMethods THEN TypeError
    ELSE IF name \in DOMAIN d.dict THEN d.dict[name]
    ELSE IF name \in DictMethods THEN BuiltinMethod
    ELSE AttributeError

\* d.keys() and d.items(): a call of what getattr finds
call_keys(d) ==
    IF getattr(d, "keys") = BuiltinMethod THEN DOMAIN d.items ELSE {TypeError}
call_items(d) ==
    IF getattr(d, "items") = BuiltinMethod
      THEN {<<k, d.items[k]>> : k \in DOMAIN d.items}
      ELSE {<<TypeError, TypeError>>}

Initials == {EmptyMap} \cup {Put(EmptyMap, k, v) : k \in DatasetKeys, v \in Items}

DatasetInit(initial) ==
    /\ ~ds.made
    /\ ds' = Dataset_init(initial)
    /\ ev' = Ev("Dataset", NoHandle)
    /\ UNCHANGED <<running_os, life, shared, external_sources, ng_out, eng, sim,
                   crashed, lastReg, diag, dec, lib_path, msg_queue, written,
                   emitted, cb, mem, ver>>

DatasetSetItem(key, item) ==
    /\ ds.made
    /\ ds' = Dataset_setitem(ds, key, item)
    /\ ev' = [Ev("setitem", NoHandle) EXCEPT
                !.name = key,
                !.exc = IF Dataset_setitem_raises(key) THEN TypeError ELSE "-"]
    /\ UNCHANGED <<running_os, life, shared, external_sources, ng_out, eng, sim,
                   crashed, lastReg, diag, dec, lib_path, msg_queue, written,
                   emitted, cb, mem, ver>>

InitDataset == Init /\ running_os = "Linux"

NextDataset ==
    \/ \E initial \in Initials : DatasetInit(initial)
    \/ \E key \in DatasetKeys, item \in Items : DatasetSetItem(key, item)

SpecDataset == InitDataset /\ [][NextDataset]_vars

(***************************************************************************)
(* Claims on the lifecycle, the commands and the external sources          *)
(***************************************************************************)
AttachedSet == {h \in Handles : Attached(h)}

\* C1: while one object is attached, constructing a second one fails and
\* leaves the engine bound to the first; at most one object is attached.
C1_SecondAttachRefused ==
    /\ Cardinality(AttachedSet) <= 1
    /\ \A h \in Handles :
         (ev.op = "init" /\ ev.h # h /\ Attached(h)) => (ev.exc # "-" /\ eng.user = h)

\* C2: a data request for a name the caller registered writes back fn(T) for
\* the function fn registered last under that name on the object the callback
\* receives; the registry holds that function until the next registration.
C2_RegisteredSourceValue ==
    /\ (ev.op = "GetSRCData" /\ ev.regd # NoFn) =>
         (ev.value = Apply(ev.regd, ev.t) /\ ~ev.miss /\ ev.ret = "0")
    /\ \A h \in Handles, n \in Names :
         lastReg[h][n] # NoFn => external_sources[h][n] = lastReg[h][n]

\* C3: for a name the caller never registered, every request writes back 0,
\* the first one writes one warning and installs the zero function, and no
\* later one warns: the warnings for a name on an object never exceed one.
C3_UndefinedSourceOnce ==
    /\ \A h \in Handles, n \in Names :
         /\ diag[h][n] <= 1
         /\ diag[h][n] = 1 => external_sources[h][n] # NoFn
         /\ (diag[h][n] = 1 /\ lastReg[h][n] = NoFn) => external_sources[h][n] = ZeroFn
         /\ (diag[h][n] = 0 /\ lastReg[h][n] = NoFn) => external_sources[h][n] = NoFn
    /\ (ev.op = "GetSRCData" /\ ev.regd = NoFn) =>
         (ev.value = 0 /\ diag[ev.h][ev.name] = 1 /\ (ev.miss <=> ev.ret = "1"))

\* a request for an unregistered name that is not the first: silent, 0
C3_Witness ==
    /\ ev.op = "GetSRCData"
    /\ ev.regd = NoFn
    /\ ~ev.miss
    /\ ev.value = 0
    /\ diag[ev.h][ev.name] = 1

\* C4: a reset changes no object's registry and no sink, and when its
\* re-attach succeeds the engine is again linked to the data-request
\* callback with this object as its user data.
C4_ResetPreserves ==
    [][ev'.op = "reset" =>
          /\ external_sources' = external_sources
          /\ ng_out' = ng_out
          /\ lastReg' = lastReg
          /\ (ev'.exc = "-" /\ ~crashed') =>
                (shared'[ev'.h] = "open" /\ eng'.sync /\ eng'.user = ev'.h
                   /\ eng'.refs > 0)]_vars

\* a reset of an object that holds a registered source and a caller's sink
C4_Witness ==
    /\ ev.op = "reset"
    /\ ev.exc = "-"
    /\ ~crashed
    /\ external_sources[ev.h]["va0"] = "f"
    /\ external_sources[ev.h]["va1"] = ZeroFn
    /\ ng_out[ev.h] = "user_sink"
    /\ eng.user = ev.h

\* C5: a run whose netlist the engine rejects returns the failure value and
\* does not call get_data.
C5_RejectedLoadFails ==
    (ev.op = "run" /\ ev.load_rejected) => (ev.ret = "{}" /\ ~ev.decoded)

\* C6: when the engine reports failure for a command, the caller of command,
\* bg_run or run receives a failure indication.
C6_CommandStatusSurfaced ==
    /\ (ev.op \in {"command", "bg_run"} /\ ev.status # 0) => Truthy(ev.ret)
    /\ (ev.op = "run" /\ ev.status # 0) => ev.ret = "{}"

\* C8: a detach of an object whose library handle does not exist or was
\* already released sends no quit.
C8_DetachSafe ==
    (ev.op \in {"del", "reset"} /\ ev.detach_on \in {"unset", "closed"}) => ~ev.quit_sent

\* C15: every diagnostic and every engine line goes to the object's sink and
\* nowhere else: no operation writes to the standard error stream, and a
\* warning that was issued is in what the sink received.
C15_DiagnosticsToSinkOnly ==
    /\ ev.stderr = "-"
    /\ \A h \in Handles, n \in Names : diag[h][n] > 0 => Len(written[h]) > 0

\* C16: when ngSpice_Init reports failure, the construction or reset that
\* attached raises EngineInitFailed and the object is not attached.
C16_InitFailureRaised ==
    (ev.op \in {"init", "reset"} /\ ev.init_status # 0) =>
      (ev.exc = "EngineInitFailed" /\ ~Attached(ev.h))

\* C17: while a data request is between its test of the registry and its
\* assignment, the caller's thread changes no registry entry of that object,
\* and a function the caller registered is never replaced by the zero
\* fallback.
C17_CallbackExclusive ==
    [][/\ (cb # NoCb /\ cb' = cb) =>
            external_sources'[cb.self] = external_sources[cb.self]
       /\ \A h \in Handles, n \in Names :
            lastReg'[h][n] \in UserFns => external_sources'[h][n] # ZeroFn]_vars

\* C19: a construction leaves in lib_path the first path of the platform's
\* list that is a file; on a platform outside the tables or with no listed
\* file it raises, and loads no library, registers no callback and sends no
\* command.
C19_FirstExistingPathOrFail ==
    [][(ev' # ev /\ ev'.op = "init") =>
         LET h == ev'.h
             listed == IF running_os \in LibLoaderOS THEN LIB_PATHS[running_os] ELSE <<>>
             found == {i \in 1..Len(listed) : listed[i] \in ev'.files}
         IN IF found # {}
              THEN lib_path'[h] = listed[CHOOSE i \in found : \A j \in found : i <= j]
              ELSE /\ ev'.exc \in {"OSError", "FileNotFoundError"}
                   /\ life'[h] = "failed"
                   /\ lib_path'[h] = NoPath
                   /\ shared'[h] = "unset"
                   /\ eng' = eng
                   /\ sim' = sim
                   /\ ~ev'.quit_sent]_vars

\* a construction on Windows where the first listed path is no file and the
\* other two are: the second is chosen
C19_Witness ==
    /\ ev.op = "init"
    /\ running_os = "Windows"
    /\ ev.files = {LIB_PATHS["Windows"][2], LIB_PATHS["Windows"][3]}
    /\ lib_path[ev.h] = LIB_PATHS["Windows"][2]
    /\ life[ev.h] = "live"

(***************************************************************************)
(* Claims on the output callbacks                                          *)
(***************************************************************************)
EmittedTo(h) == SelectSeq(emitted, LAMBDA e : e.self = h)
IsSuffix(q, l) ==
    /\ Len(q) <= Len(l)
    /\ \A k \in 1..Len(q) : q[k] = l[Len(l) - Len(q) + k]

\* C13: the sink of an object received every line the engine handed to its
\* output and status callbacks, each followed by a newline, in the order of
\* emission, and its queue holds the last of these lines in that order.
C13_LinesForwardedInOrder ==
    \A h \in Handles :
      LET e == EmittedTo(h)
          text == [k \in 1..Len(e) |-> decode(e[k].line)]
      IN /\ written[h] = [k \in 1..(2 * Len(e)) |->
                            IF k % 2 = 1 THEN text[(k + 1) \div 2] ELSE NewLine]
         /\ IsSuffix(msg_queue[h], text)

\* C14: an output callback in which a step fails hands the engine the
\* normal return value 0.
C14_OutputFailureSuppressed ==
    (ev.op = "SendChar" /\ ev.exc # "-") => ev.ret = "0"

\* C22: every line a version() call took from the queue was printed by the
\* engine inside that call's own command, and when version() has returned
\* the queue is empty.
C22_VersionParsesOwnReplies ==
    /\ \A k \in 1..Len(ver.got) : ver.got[k].thread = "caller"
    /\ ev.op = "version" => msg_queue[ev.h] = <<>>

(***************************************************************************)
(* Claims on Dataset                                                       *)
(***************************************************************************)
\* C18: for every key of a Dataset the attribute of that name is the item
\* at the key, and keys() and items() give the keys and the pairs of the
\* mapping.
C18_DatasetAgrees ==
    ds.made =>
      /\ \A k \in DOMAIN ds.items : getattr(ds, k) = ds.items[k]
      /\ call_keys(ds) = DOMAIN ds.items
      /\ call_items(ds) = {<<k, ds.items[k]>> : k \in DOMAIN ds.items}

(***************************************************************************)
(* Claims on the decoder                                                   *)
(***************************************************************************)
Seen == {dec.seen[i] : i \in 1..Len(dec.seen)}
Stored(container, s) == s.vec.v_name \in DOMAIN container[s.plot]
Flagged(vec) == is_real(vec.v_flags) \/ is_complex(vec.v_flags)

\* C7: when the query of one vector faults, every other flagged vector is
\* returned with the value of its own buffer, and with its catalog tag when
\* its code is in range, and the result carries a record of the skipped ones.
C7_FaultIsolated ==
    (dec.pc = "done" /\ \E s \in Seen : s.vec.fault) =>
      /\ \A s \in Seen :
           (~s.vec.fault /\ Flagged(s.vec)) =>
             /\ Stored(dec.ret[1], s)
             /\ dec.ret[1][s.plot][s.vec.v_name] = next_z(UnboundZ, s.vec)
             /\ s.vec.v_type \in 0..(Len(UNITS) - 1) =>
                  /\ Stored(dec.ret[2], s)
                  /\ dec.ret[2][s.plot][s.vec.v_name] = unit_tag(s.vec.v_type)
      /\ Len(dec.ret) > 2

\* C9: a vector whose type code is outside 0..22 gets no tag; one whose
\* code is inside gets the catalog pair of that code.
C9_TypeCodeChecked ==
    \A s \in Seen :
      (~s.vec.fault /\ Flagged(s.vec)) =>
        IF s.vec.v_type \in 0..(Len(UNITS) - 1)
          THEN /\ Stored(dec.units, s)
               /\ dec.units[s.plot][s.vec.v_name] =
                    <<UNITS[s.vec.v_type + 1], TYPE[s.vec.v_type + 1]>>
          ELSE ~Stored(dec.units, s)

\* C10: a vector with the complex flag and not the real one decodes to
\* v_length elements, element k being (b[2k], b[2k+1]) of its buffer b, and
\* (b[2k], 0) for the vector named frequency.
C10_ComplexExact ==
    \A s \in Seen :
      (~s.vec.fault /\ is_complex(s.vec.v_flags) /\ ~is_real(s.vec.v_flags)) =>
        /\ Stored(dec.data, s)
        /\ LET d == dec.data[s.plot][s.vec.v_name]
               b == s.vec.buf
           IN /\ Len(d.re) = s.vec.v_length
              /\ Len(d.im) = s.vec.v_length
              /\ \A k \in 1..s.vec.v_length :
                   /\ d.re[k] = b[2 * k - 1]
                   /\ d.im[k] = IF s.vec.v_name = "frequency" THEN 0 ELSE b[2 * k]

\* C11: a vector with the real flag, of reported length N, is stored under
\* its name as N elements, element k being entry k of its buffer.
C11_RealExact ==
    \A s \in Seen :
      (~s.vec.fault /\ is_real(s.vec.v_flags)) =>
        /\ Stored(dec.data, s)
        /\ LET d == dec.data[s.plot][s.vec.v_name]
           IN /\ Len(d.re) = s.vec.v_length
              /\ \A k \in 1..s.vec.v_length : d.re[k] = s.vec.buf[k] /\ d.im[k] = 0

\* a returned real vector of the greatest length whose first entry no
\* float32 holds
C11_Witness ==
    /\ dec.pc = "done"
    /\ \E s \in Seen :
         /\ is_real(s.vec.v_flags)
         /\ ~s.vec.fault
         /\ s.vec.v_length = MaxLen
         /\ s.vec.buf[1] = Sample[1]
         /\ dec.ret[1][s.plot][s.vec.v_name].re = s.vec.buf

\* C12: the two containers a pass returns have the same plot names, and
\* under every plot name the same vector names.
C12_KeyedIdentically ==
    dec.pc = "done" =>
      /\ DOMAIN dec.ret[1] = DOMAIN dec.ret[2]
      /\ \A p \in DOMAIN dec.ret[1] : DOMAIN dec.ret[1][p] = DOMAIN dec.ret[2][p]

\* C20: a vector with neither the real nor the complex flag is in neither
\* container, wherever it stands in the list of its plot, and every vector
\* with a flag is in the values container.
C20_FlaglessSkipped ==
    \A s \in Seen :
      ~s.vec.fault =>
        IF Flagged(s.vec) THEN Stored(dec.data, s)
        ELSE ~Stored(dec.data, s) /\ ~Stored(dec.units, s)

\* C21: every array of a returned values container reads, after any later
\* run, reset or destruction and whatever the engine does with its buffers,
\* as the values it had when it was decoded.
C21_DecodedAreCopies ==
    dec.pc = "done" =>
      \A p \in DOMAIN dec.ret[1] :
        \A n \in DOMAIN dec.ret[1][p] :
          Reads(dec.ret[1][p][n]) = {dec.ret[1][p][n].re}

====
